---- MODULE Spec2Model ----
(***************************************************************************)
(* Resumable lead-generation pipeline (lead_generator.py) and its          *)
(* rate-limited retrying HTTP client (http_client.py).                     *)
(*                                                                         *)
(* Spec      the pipeline: runs of run_lead_generation over a directory,   *)
(*           with process termination at any point and resumption from    *)
(*           the persisted cursor.                                         *)
(* SpecHttp  one call of FreelancerApiClient._request_json, attempt by     *)
(*           attempt.                                                      *)
(* SpecLimiter  calls of RateLimiter.wait (rate_limiter.py) over a clock   *)
(*           in whole units.                                               *)
(* SpecCache calls on SqliteUserCache and the legacy-JSON migration        *)
(*           (sqlite_cache.py), with close and process termination.        *)
(* SpecSteady  the pipeline without fetch failures and terminations, its   *)
(*           steps taken under weak fairness.                              *)
(* SpecCorrupt  the pipeline over any content of state.json.               *)
(* SpecStore lines 96-113 of run_lead_generation applied to the payloads   *)
(*           of fetched batches: sink upsert, set_many, commit.            *)
(***************************************************************************)
EXTENDS Integers, Sequences, FiniteSets, TLC

VARIABLES
    \* ---- what survives a process: files, database, remote service
    directory,        \* the remote directory listing (fixed during a behaviour)
    json_cache,       \* user_cache.json, the legacy JsonFileCache document
    state_file,       \* state.json: <<>> when the file is missing, else <<document>>
    leads,            \* leads.jsonl, one LeadRecord per line
    cache_db,         \* table users of user_cache.db: user_id -> payload_json
    supabase,         \* remote table: id -> row
    \* ---- the running process (run_lead_generation)
    pc,               \* position of the process; "idle" when no process runs
    exit,             \* how the last process ended
    directory_state,  \* state["directory"], the in-memory cursor document
    offset,
    index_in_page,
    users,            \* the directory page being processed
    idx,
    reviewer_ids,
    batches,          \* chunked(missing, users_batch_size), the batches still to fetch
    \* ---- history
    runs,             \* processes started so far
    kills,            \* processes terminated from outside so far
    last_fetch,       \* <<which fetch, its result>> of the step just taken
    done_steps,       \* steps completed for the entity in flight
    effects,          \* directory positions for which a side effect was performed
    \* ---- one call of FreelancerApiClient._request_json
    attempt,
    last_exc,
    last_status,
    last_text,
    resp,
    result,
    slept,            \* the sleep the attempt just made performed: << >> or <<seconds>>
    waits,            \* calls of limiter.wait() made by the request
    outcome,          \* what the attempt just made met
    history,          \* what each attempt so far met
    trace,            \* limiter waits and HTTP requests of the call, in program order
    \* ---- history of the entity in flight
    reviews_seen,     \* the reviews its reviews fetch returned
    missing_ids,      \* its reviewer ids absent from the cache at partition time
    requested,        \* the batches sent to the batch user fetch for it
    \* ---- RateLimiter
    clock,            \* time.monotonic()
    _last_ts,
    _window,
    min_interval_s,
    requests_per_minute,  \* << >> for None, else <<cap>>
    jitter_s,
    stamps,           \* the timestamps recorded by the calls of wait(), in call order
    \* ---- SqliteUserCache, one connection at a time
    conn,             \* << >> when no connection is open, else <<the table as it sees it>>
    unsaved,          \* id -> record written through the connection since its last commit
    saved,            \* id -> record as of the last commit
    written,          \* the ids ever written
    opens,            \* connections opened so far
    returned,         \* the last call and what it returned
    cache_ops,        \* calls made so far
    \* ---- the remote sink and the wall clock
    supabase_configured,  \* CONFIG holds the sink's url and service key
    _warned_missing,  \* supabase_storage._warned_missing
    utc_now           \* datetime.now(tz=timezone.utc)

pipe_vars == <<directory, json_cache, state_file, leads, cache_db, supabase, pc, exit,
               directory_state, offset, index_in_page, users, idx, reviewer_ids,
               batches, runs, kills, last_fetch, done_steps, effects>>
ghost_vars == <<reviews_seen, missing_ids, requested>>
http_vars == <<attempt, last_exc, last_status, last_text, resp, result, slept, waits,
               outcome, history, trace>>
lim_vars == <<clock, _last_ts, _window, min_interval_s, requests_per_minute, jitter_s,
              stamps>>
cache_vars == <<conn, unsaved, saved, written, opens, returned, cache_ops>>
sink_vars == <<supabase_configured, _warned_missing, utc_now>>
aux_vars == <<lim_vars, cache_vars, sink_vars>>
vars == <<pipe_vars, ghost_vars, http_vars, aux_vars>>

\* -------------------------------------------------------------- bounds
MaxEntities == 3
MaxRuns == 3
directory_limit == 2
users_batch_size == 1
max_retries == 2
backoff_max_s == 3

\* ---------------------------------------------------- program constants
backoff_base_s == 1
SnippetLength == 500

Min(a, b) == IF a <= b THEN a ELSE b

\* ------------------------------------------------- the remote service
Anon == [username |-> "anon"]
Entity(n) == [id |-> n]
\* an element of the users list that is no JSON object: null
Null == [json |-> "null"]
EntityPool == {Entity(10), Entity(11), Entity(12), Anon, Null}

Injective(s) == \A i, j \in 1..Len(s) : s[i] = s[j] => i = j
Directories ==
    UNION { {s \in [1..n -> EntityPool] : Injective(s)} : n \in 0..MaxEntities }

\* reviews the service holds for a freelancer
ReviewsOf(uid) ==
    CASE uid = 10 -> << [from_user_id |-> 6], [from_user_id |-> 5], [from_user_id |-> 6] >>
      [] uid = 12 -> << [from_user |-> [id |-> 7]], [from_user_id |-> 6], [rating |-> 5] >>
      [] OTHER -> << >>

ClosedUsers == {7}
\* registration_date of the users the service has one for
RegistrationDates == [u \in {5, 7} |-> 100 + u]
RemoteUser(uid) ==
    LET user == [id |-> uid, username |-> "user", closed |-> (uid \in ClosedUsers),
                 role |-> "employer"]
    IN IF uid \in DOMAIN RegistrationDates
       THEN [k \in DOMAIN user \cup {"registration_date"} |->
                IF k = "registration_date" THEN RegistrationDates[uid] ELSE user[k]]
       ELSE user

\* int(k) of a key of the JSON document: << >> when it raises, else <<value>>
IntOf(k) ==
    CASE k = "5" -> <<5>>
      [] k = "6" -> <<6>>
      [] k = "7" -> <<7>>
      [] OTHER -> << >>

\* contents user_cache.json may have when the first run starts: << >> when the file
\* is missing, else the document JsonFileCache saved, keyed by str(user_id)
StoredUser(uid) == [username |-> "user", closed |-> (uid \in ClosedUsers)]
LegacyCaches == { << >>, [k \in {"5", "6", "7"} |-> StoredUser(IntOf(k)[1])] }

\* ------------------------------------------------------- pure helpers
\* the elements of S from the largest down
RECURSIVE sorted_descending(_)
sorted_descending(S) ==
    IF S = {} THEN << >>
    ELSE LET m == CHOOSE x \in S : \A y \in S : x >= y
         IN <<m>> \o sorted_descending(S \ {m})

RECURSIVE sorted(_)
sorted(S) ==
    IF S = {} THEN << >>
    ELSE LET m == CHOOSE x \in S : \A y \in S : x <= y
         IN <<m>> \o sorted(S \ {m})

RECURSIVE chunked(_, _)
chunked(items, size) ==
    IF items = << >> THEN << >>
    ELSE <<SubSeq(items, 1, Min(size, Len(items)))>>
         \o chunked(SubSeq(items, Min(size, Len(items)) + 1, Len(items)), size)

\* the wrapper _request_json returns for a body that is not JSON
NonJsonResult == [ok |-> FALSE, raw |-> "text", url |-> "url"]

\* the three ways a call of client.get can end
RequestResults == {"json", "nonjson", "raise"}

extract_users(payload) ==
    IF "result" \in DOMAIN payload /\ "users" \in DOMAIN payload.result
    THEN payload.result.users
    ELSE IF "users" \in DOMAIN payload THEN payload.users ELSE << >>

\* user_obj.get exists: extract_user_id raises AttributeError for anything else
IsObject(user_obj) == user_obj # Null
HasId(user_obj) == "id" \in DOMAIN user_obj \/ "user_id" \in DOMAIN user_obj
extract_user_id(user_obj) ==
    IF "id" \in DOMAIN user_obj THEN user_obj.id ELSE user_obj.user_id

extract_reviews(payload) ==
    IF "result" \in DOMAIN payload /\ "reviews" \in DOMAIN payload.result
    THEN payload.result.reviews
    ELSE IF "reviews" \in DOMAIN payload THEN payload.reviews ELSE << >>

\* lines 51-58: the reviewer of one review, << >> when it names none; from_user is
\* the fallback, an embedded user object
ReviewerOf(r) ==
    IF "from_user_id" \in DOMAIN r THEN <<r.from_user_id>>
    ELSE IF "from_user" \in DOMAIN r
         THEN IF "id" \in DOMAIN r.from_user THEN <<r.from_user.id>>
              ELSE IF "user_id" \in DOMAIN r.from_user THEN <<r.from_user.user_id>>
              ELSE << >>
         ELSE << >>

extract_reviewer_ids(payload) ==
    LET rs == extract_reviews(payload)
    IN {ReviewerOf(rs[i])[1] : i \in {j \in 1..Len(rs) : ReviewerOf(rs[j]) # << >>}}

extract_users_map(payload) ==
    LET us == extract_users(payload)
        ids == {extract_user_id(us[i]) : i \in {j \in 1..Len(us) : HasId(us[j])}}
    IN [u \in ids |->
          LET last == CHOOSE i \in 1..Len(us) :
                        /\ HasId(us[i]) /\ extract_user_id(us[i]) = u
                        /\ \A j \in 1..Len(us) :
                             (HasId(us[j]) /\ extract_user_id(us[j]) = u) => j <= i
          IN us[last]]

\* user_obj.get(key): << >> for None
minimize_user(user_obj) ==
    [username |-> user_obj.username,
     closed |-> user_obj.closed,
     registration_date |-> IF "registration_date" \in DOMAIN user_obj
                           THEN <<user_obj.registration_date>> ELSE << >>]

\* lines 104-116: joined_at is the registration date, or the time of the call
\* when the user has none
to_supabase_client_row(uid, minimized) ==
    [id |-> uid,
     username |-> minimized.username,
     joined_at |-> IF minimized.registration_date # << >>
                   THEN minimized.registration_date[1] ELSE utc_now,
     reg_at |-> minimized.registration_date]

\* ------------------------------------------------------------ storage
DefaultState ==
    [directory |-> [offset |-> 0, index_in_page |-> 0, limit |-> directory_limit]]

\* an append that starts the file over
append_jsonl_truncates(log, obj) == <<obj>>
\* a loader that ignores the file
load_json_forgets(file, default) == default
\* contents of state.json that are not a cursor document: text json.load rejects,
\* the documents [] and {}, and a document whose directory is null
InvalidJson == [text |-> "{"]
JsonList == [json |-> "[]"]
EmptyObject == << >>
NullDirectory == [directory |-> Null]
\* FileNotFoundError and JSONDecodeError give the default, anything decoded is returned
load_json(file, default) ==
    IF file = << >> THEN default
    ELSE IF file[1] = InvalidJson THEN default ELSE file[1]

\* the value is a dict: it has setdefault and get
IsDict(v) == v \notin {Null, JsonList}
\* d.get(key, default) of a dict
DictGet(d, key, default) == IF key \in DOMAIN d THEN d[key] ELSE default
\* d[key] = value of a dict
DictSet(d, key, value) == [k \in DOMAIN d \cup {key} |-> IF k = key THEN value ELSE d[k]]
\* line 49: state.setdefault("directory", {})
DirectoryOf(state) == DictGet(state, "directory", EmptyObject)
\* lines 49-51 raise AttributeError when state or state["directory"] is no dict
StateUsable(state) == IsDict(state) /\ IsDict(DirectoryOf(state))

save_json_atomic(data) == <<data>>

append_jsonl(log, obj) == Append(log, obj)

\* ------------------------------------------------------- sqlite cache
\* json.dumps and json.loads of a user record, member by member: the text of a
\* boolean is true or false, the text of any other member is the member quoted
JsonDumps(obj) ==
    [k \in DOMAIN obj |->
        IF k = "closed" THEN (IF obj[k] THEN "true" ELSE "false") ELSE <<"quoted", obj[k]>>]
JsonLoads(text) ==
    [k \in DOMAIN text |->
        IF k = "closed" THEN text[k] = "true" ELSE text[k][2]]

\* SqliteUserCache.get: << >> for None, else <<record>>
CacheGet(db, uid) == IF uid \in DOMAIN db THEN <<JsonLoads(db[uid])>> ELSE << >>

\* INSERT OR IGNORE: a row whose id is in the table is dropped
set_many_ignores(db, rows) ==
    [u \in DOMAIN db \cup {rows[i][1] : i \in 1..Len(rows)} |->
        IF u \in DOMAIN db THEN db[u]
        ELSE LET last == CHOOSE i \in 1..Len(rows) :
                           rows[i][1] = u /\ \A j \in 1..Len(rows) : rows[j][1] = u => j <= i
             IN JsonDumps(rows[last][2])]
\* SqliteUserCache.set_many: INSERT OR REPLACE of every row, in order
set_many(db, rows) ==
    [u \in DOMAIN db \cup {rows[i][1] : i \in 1..Len(rows)} |->
        IF \E i \in 1..Len(rows) : rows[i][1] = u
        THEN LET last == CHOOSE i \in 1..Len(rows) :
                           rows[i][1] = u /\ \A j \in 1..Len(rows) : rows[j][1] = u => j <= i
             IN JsonDumps(rows[last][2])
        ELSE db[u]]

\* SqliteUserCache.set: INSERT OR REPLACE of one row
CacheSet(db, uid, obj) == set_many(db, << <<uid, obj>> >>)

\* SqliteUserCache.commit: the table as the connection sees it becomes the file's
commit_nothing(file, seen) == file
commit(file, seen) == seen

\* lines 90-102: the (id, record) pairs the migration writes
MigrationBatchKeepsClosed(data) ==
    LET keys == {k \in DOMAIN data : IntOf(k) # << >>}
        keep == sorted({IntOf(k)[1] : k \in keys})
    IN [i \in 1..Len(keep) |->
          <<keep[i], data[CHOOSE k \in keys : IntOf(k) = <<keep[i]>>]>>]
MigrationBatch(data) ==
    LET keys == {k \in DOMAIN data : IntOf(k) # << >> /\ ~data[k].closed}
        keep == sorted({IntOf(k)[1] : k \in keys})
    IN [i \in 1..Len(keep) |->
          <<keep[i], data[CHOOSE k \in keys : IntOf(k) = <<keep[i]>>]>>]

\* the table after the migration, which commits what it writes and closes
migrate_json_cache_to_sqlite(data, db) ==
    LET batch == MigrationBatch(data)
    IN IF batch = << >> THEN db ELSE commit(db, set_many(db, batch))

\* the count the migration returns
Migrated(data) == Len(MigrationBatch(data))

\* ids and records of the calls made on a cache
CacheIds == {5, 6, 7}
Records == {[username |-> "user", closed |-> FALSE], [username |-> "other", closed |-> FALSE]}
\* longest batch given to set_many, and calls made on the cache in a behaviour
MaxBatch == 2
MaxCacheOps == 6
Batches ==
    UNION { [1..n -> ({5, 6} \X Records)] : n \in 0..MaxBatch }
\* documents a migration may find
Documents ==
    LegacyCaches \cup
    { [k \in {"5", "6"} |-> IF k = "5" THEN [username |-> "old", closed |-> FALSE]
                                      ELSE [username |-> "gone", closed |-> TRUE]] }

\* the last call made on the cache and what it returned
Ret(op, uid, batch, value, n) ==
    [op |-> op, id |-> uid, batch |-> batch, value |-> value, n |-> n]

\* id -> record of the rows, the last row of an id winning
LatestOf(rows) ==
    [u \in {rows[i][1] : i \in 1..Len(rows)} |->
        rows[CHOOSE i \in 1..Len(rows) :
                rows[i][1] = u /\ \A j \in 1..Len(rows) : rows[j][1] = u => j <= i][2]]
\* f with the entries of g laid over it
Over(f, g) ==
    [u \in DOMAIN f \cup DOMAIN g |-> IF u \in DOMAIN g THEN g[u] ELSE f[u]]

\* no cache call made yet, no connection open
CacheIdle ==
    /\ conn = << >>
    /\ unsaved = << >>
    /\ saved = << >>
    /\ written = {}
    /\ opens = 0
    /\ returned = Ret("none", 0, << >>, << >>, 0)
    /\ cache_ops = 0

\* --------------------------------------------------------------- sink
upsert_users(table, rows) ==
    [u \in DOMAIN table \cup {rows[i].id : i \in 1..Len(rows)} |->
        IF \E i \in 1..Len(rows) : rows[i].id = u
        THEN (CHOOSE r \in {rows[i] : i \in 1..Len(rows)} : r.id = u)
        ELSE table[u]]

\* upsert_users returns before touching the client when there is no row
SinkWrites(rows) == rows # << >>

\* get_supabase_client raises ValueError without url or key; upsert_users catches
\* it and returns
get_supabase_client_raises == ~supabase_configured
SinkStores(rows) == SinkWrites(rows) /\ ~get_supabase_client_raises

\* the sink as long as nobody calls it
SinkIdle ==
    /\ supabase_configured = TRUE
    /\ _warned_missing = FALSE
    /\ utc_now = 0

\* ------------------------------- FreelancerApiClient._request_json
TransientStatuses == {429, 500, 502, 503, 504}

\* what one attempt can meet: get_headers raising, the transport failing, a response
Met(kind, exc, status, retry_after, body_len, body_json) ==
    [kind |-> kind, exc |-> exc, status |-> status, retry_after |-> retry_after,
     body_len |-> body_len, body_json |-> body_json]
NoOutcome == Met("none", "", 0, << >>, 0, FALSE)
\* Retry-After as the server sends it: << >> when absent, else <<text>>
RetryAfterHeaders == {<< >>, <<"">>, <<"soon">>, <<"-1">>, <<"0">>, <<"2">>, <<"100">>}
Outcomes ==
    {Met("auth", "ValueError", 0, << >>, 0, FALSE)}
    \cup {Met("transport", e, 0, << >>, 0, FALSE) : e \in {"Timeout", "ConnectionError"}}
    \cup {Met("response", "", s, h, n, FALSE) :
              s \in {429, 503}, h \in RetryAfterHeaders, n \in {0, 501}}
    \cup {Met("response", "", s, << >>, b[1], b[2]) :
              s \in {200, 304, 404}, b \in {<<0, FALSE>>, <<501, FALSE>>, <<501, TRUE>>}}

\* float(text): << >> when it raises ValueError, else <<value>>
ParseFloat(text) ==
    CASE text = "-1" -> <<-1>>
      [] text = "0" -> <<0>>
      [] text = "2" -> <<2>>
      [] text = "100" -> <<100>>
      [] OTHER -> << >>

RECURSIVE Pow2(_)
Pow2(n) == IF n = 0 THEN 1 ELSE 2 * Pow2(n - 1)

_backoff(n) == Min(backoff_max_s, backoff_base_s * Pow2(n))

_compute_retry_sleep(retry_after, n) ==
    IF retry_after # << >> /\ retry_after[1] # "" /\ ParseFloat(retry_after[1]) # << >>
    THEN Min(backoff_max_s, ParseFloat(retry_after[1])[1])
    ELSE _backoff(n)

\* time.sleep raises ValueError for a negative length
SleepRaises(seconds) == seconds < 0

\* (resp.text or "")[:500]
Snippet(body_len) == Min(body_len, SnippetLength)

\* Response.raise_for_status raises HTTPError for 4xx and 5xx
RaisesForStatus(status) == 400 <= status /\ status < 600

Outcome(kind, where, exc, status, text) ==
    [kind |-> kind, where |-> where, exc |-> exc, status |-> status, text |-> text]
Running == Outcome("running", "", "", << >>, << >>)
ReturnJson == Outcome("return", "attempt", "json", << >>, << >>)
\* {"ok": False, "raw": resp.text, "url": url}
ReturnNonJson(r) == Outcome("return", "attempt", "nonjson", << >>, <<r.body_len>>)

\* line 84: the calls of limiter.wait() that open turn n of the loop
WaitsOfTurnFirstOnly(n) == IF n = 0 THEN <<"wait">> ELSE << >>
WaitsOfTurn(n) == <<"wait">>

\* lines 121-126: what is raised once the loop is over
ExhaustedErrorForgetsTransport(exc, status, text) ==
    Outcome("raise", "after_loop", "RuntimeError", status, text)
ExhaustedError(exc, status, text) ==
    IF exc # << >>
    THEN Outcome("raise", "after_loop", exc[1], << >>, << >>)
    ELSE Outcome("raise", "after_loop", "RuntimeError", status, text)


\* -------------------------------------------------------- RateLimiter
\* calls of wait() in a behaviour
MaxCalls == 4
\* window_s of the requests-per-minute cap
window_s == 60

\* configurations of a limiter; requests_per_minute is << >> for None
Intervals == {0, 1, 2}
RpmCaps == {<< >>, <<0>>, <<1>>, <<2>>}
JitterCaps == {0, 1}
\* what time.monotonic() reads when the first call is made
ClockStarts == {5}
\* time the caller lets pass between the return of a call and the next call
CallerDelays == {0, 1, 60}
\* time by which the clock read on line 51 is past the end of the sleeps asked for:
\* time.sleep lasts at least the length asked for, statements take time
Lateness == {0, 1}

Max(a, b) == IF a >= b THEN a ELSE b

\* `if self.requests_per_minute:` is false for None and for 0
CapOn(rpm) == rpm # << >> /\ rpm[1] # 0

\* lines 32-33: drop from the left the entries older than the cutoff
RECURSIVE Evict(_, _)
Evict(w, cutoff) ==
    IF w # << >> /\ w[1] < cutoff THEN Evict(Tail(w), cutoff) ELSE w

\* lines 35-39: the sleep made for a full window
WindowSleep(w, rpm, now) ==
    IF Len(w) >= rpm[1] THEN Max(0, (w[1] + window_s) - now) ELSE 0

\* lines 42-45: the sleep made for the minimum interval
IntervalSleepNever(last_ts, interval, now) == 0
IntervalSleep(last_ts, interval, now) ==
    IF last_ts # 0 THEN Max(0, interval - (now - last_ts)) ELSE 0

\* RateLimiter.wait called when the clock reads now, with the jitter drawn and the
\* lateness of the last clock reading: the new _last_ts and _window
wait(now, jitter, late) ==
    LET capped == CapOn(requests_per_minute)
        w == IF capped THEN Evict(_window, now - window_s) ELSE _window
        now1 == IF capped THEN now + WindowSleep(w, requests_per_minute, now) ELSE now
        now2 == now1 + IntervalSleep(_last_ts, min_interval_s, now1)
        ts == now2 + jitter + late
    IN [_last_ts |-> ts, _window |-> IF capped THEN Append(w, ts) ELSE w]

\* a limiter nobody has called
LimiterNew ==
    /\ clock \in ClockStarts
    /\ _last_ts = 0
    /\ _window = << >>
    /\ stamps = << >>

\* the limiter while the pipeline or a single request is looked at
LimiterIdle ==
    /\ LimiterNew
    /\ min_interval_s = 0
    /\ requests_per_minute = << >>
    /\ jitter_s = 0

\* ------------------------------------------------ run_lead_generation
\* what the service returns for the directory page at offset off
DirectoryPayload(off) ==
    [result |-> [users |-> SubSeq(directory, off + 1,
                                  Min(off + directory_limit, Len(directory)))]]

ReviewsPayload(uid) == [result |-> [reviews |-> ReviewsOf(uid)]]

UsersPayload(batch) == [result |-> [users |-> [i \in 1..Len(batch) |-> RemoteUser(batch[i])]]]

\* keyword parameters fetch_users_by_ids declares, and those its call passes
fetch_users_by_ids_params == {"compact"}
fetch_users_by_ids_call == {"compact", "status"}
\* a Python call binds only keywords the callee declares; otherwise TypeError
CallBinds(declared, passed) == passed \subseteq declared

\* the step that follows the batch loop of an entity
StepAfterBatchesSkipsAppend == "save"
StepAfterBatches == "append"

\* the cursor document written after the entity at in-page index i
ProgressAfterEntitySkipsOne(off, i) ==
    [offset |-> off, index_in_page |-> i + 2, limit |-> directory_limit]
ProgressAfterEntity(off, i) ==
    [offset |-> off, index_in_page |-> i + 1, limit |-> directory_limit]

freelancer_id == extract_user_id(users[idx + 1])
Position == [offset |-> offset, idx |-> idx]

lead_record ==
    [freelancer_user_id |-> freelancer_id,
     reviewer_ids |-> reviewer_ids,
     reviewers |->
        LET found == SelectSeq(reviewer_ids, LAMBDA rid : CacheGet(cache_db, rid) # << >>)
        IN [i \in 1..Len(found) |-> CacheGet(cache_db, found[i])[1]]]

files == <<directory, json_cache, state_file, leads, cache_db, supabase>>
\* all of the pipeline but the cache file
pipe_rest == <<directory, json_cache, state_file, leads, supabase, pc, exit,
               directory_state, offset, index_in_page, users, idx, reviewer_ids,
               batches, runs, kills, last_fetch, done_steps, effects>>
locals == <<directory_state, offset, index_in_page, users, idx, reviewer_ids, batches>>

\* the process is gone: by return, by an exception, or by termination
EndRun(how) ==
    /\ pc' = "idle"
    /\ exit' = how
    /\ directory_state' = DefaultState.directory
    /\ offset' = 0
    /\ index_in_page' = 0
    /\ users' = << >>
    /\ idx' = 0
    /\ reviewer_ids' = << >>
    /\ batches' = << >>
    /\ done_steps' = << >>

\* no run made yet, whatever user_cache.json and state.json hold
PipeBlank ==
    /\ directory \in Directories
    /\ leads = << >>
    /\ cache_db = << >>
    /\ supabase = << >>
    /\ pc = "idle"
    /\ exit = "none"
    /\ directory_state = DefaultState.directory
    /\ offset = 0
    /\ index_in_page = 0
    /\ users = << >>
    /\ idx = 0
    /\ reviewer_ids = << >>
    /\ batches = << >>
    /\ runs = 0
    /\ kills = 0
    /\ last_fetch = <<"none", "none">>
    /\ done_steps = << >>
    /\ effects = {}
    /\ reviews_seen = << >>
    /\ missing_ids = << >>
    /\ requested = << >>

\* ... and no state.json
PipeFresh == PipeBlank /\ state_file = << >>

PipeInit == PipeFresh /\ json_cache \in LegacyCaches

HttpIdle ==
    /\ attempt = 0
    /\ last_exc = << >>
    /\ last_status = << >>
    /\ last_text = << >>
    /\ resp = << >>
    /\ result = Outcome("idle", "", "", << >>, << >>)
    /\ slept = << >>
    /\ waits = 0
    /\ outcome = NoOutcome
    /\ history = << >>
    /\ trace = << >>

\* lines 35-61: load the cursor, migrate the legacy cache, open the cache
Start ==
    /\ pc = "idle"
    /\ UNCHANGED <<http_vars, lim_vars, cache_vars, supabase_configured, _warned_missing>>
    /\ utc_now' = utc_now + 1
    /\ reviews_seen' = << >>
    /\ missing_ids' = << >>
    /\ requested' = << >>
    /\ runs < MaxRuns
    /\ LET state == load_json(state_file, DefaultState)
       IN /\ StateUsable(state)
          /\ directory_state' = DirectoryOf(state)
          /\ offset' = DictGet(DirectoryOf(state), "offset", 0)
          /\ index_in_page' = DictGet(DirectoryOf(state), "index_in_page", 0)
    /\ cache_db' = migrate_json_cache_to_sqlite(json_cache, cache_db)
    /\ pc' = "fetch_page"
    /\ runs' = runs + 1
    /\ last_fetch' = <<"none", "none">>
    /\ UNCHANGED <<directory, json_cache, state_file, leads, supabase, exit, users, idx,
                   reviewer_ids, batches, kills, done_steps, effects>>

\* lines 43-51: the decoded state is no cursor document and the process ends with
\* AttributeError before it has migrated, opened the cache or fetched anything
StartRaises ==
    /\ pc = "idle"
    /\ UNCHANGED <<http_vars, lim_vars, cache_vars, supabase_configured, _warned_missing>>
    /\ UNCHANGED ghost_vars
    /\ utc_now' = utc_now + 1
    /\ runs < MaxRuns
    /\ ~StateUsable(load_json(state_file, DefaultState))
    /\ runs' = runs + 1
    /\ exit' = "AttributeError"
    /\ last_fetch' = <<"none", "none">>
    /\ UNCHANGED <<files, pc, locals, kills, done_steps, effects>>

\* lines 64-70
FetchDirectoryPage ==
    /\ pc = "fetch_page"
    /\ UNCHANGED <<http_vars, aux_vars, ghost_vars>>
    /\ \E r \in RequestResults :
        /\ last_fetch' = <<"directory", r>>
        /\ IF r = "raise"
           THEN EndRun("fetch_error")
           ELSE LET payload == IF r = "json" THEN DirectoryPayload(offset) ELSE NonJsonResult
                    page == extract_users(payload)
                IN IF page = << >>
                   THEN EndRun("ok")
                   ELSE /\ users' = page
                        /\ idx' = 0
                        /\ pc' = "entity"
                        /\ UNCHANGED <<exit, directory_state, offset, index_in_page,
                                       reviewer_ids, batches, done_steps>>
    /\ UNCHANGED <<files, runs, kills, effects>>

\* lines 73-74
SkipProcessed ==
    /\ pc = "entity"
    /\ UNCHANGED <<http_vars, aux_vars, ghost_vars>>
    /\ idx < Len(users)
    /\ idx < index_in_page
    /\ idx' = idx + 1
    /\ last_fetch' = <<"none", "none">>
    /\ UNCHANGED <<files, pc, exit, directory_state, offset, index_in_page, users,
                   reviewer_ids, batches, runs, kills, done_steps, effects>>

\* lines 76-81
SkipMalformed ==
    /\ pc = "entity"
    /\ UNCHANGED <<http_vars, aux_vars, ghost_vars>>
    /\ idx < Len(users)
    /\ idx >= index_in_page
    /\ IsObject(users[idx + 1])
    /\ ~HasId(users[idx + 1])
    /\ directory_state' = DictSet(directory_state, "index_in_page", idx + 1)
    /\ state_file' = save_json_atomic([directory |-> directory_state'])
    /\ idx' = idx + 1
    /\ last_fetch' = <<"none", "none">>
    /\ UNCHANGED <<directory, json_cache, leads, cache_db, supabase, pc, exit, offset,
                   index_in_page, users, reviewer_ids, batches, runs, kills, done_steps,
                   effects>>

\* line 76: extract_user_id raises on an entity that is no object
ExtractIdRaises ==
    /\ pc = "entity"
    /\ UNCHANGED <<http_vars, aux_vars, ghost_vars>>
    /\ idx < Len(users)
    /\ idx >= index_in_page
    /\ ~IsObject(users[idx + 1])
    /\ EndRun("AttributeError")
    /\ last_fetch' = <<"none", "none">>
    /\ UNCHANGED <<files, runs, kills, effects>>

\* lines 83-92
FetchReviews ==
    /\ pc = "entity"
    /\ UNCHANGED <<http_vars, aux_vars>>
    /\ idx < Len(users)
    /\ idx >= index_in_page
    /\ IsObject(users[idx + 1])
    /\ HasId(users[idx + 1])
    /\ \E r \in RequestResults :
        /\ last_fetch' = <<"reviews", r>>
        /\ IF r = "raise"
           THEN EndRun("fetch_error") /\ UNCHANGED ghost_vars
           ELSE LET payload == IF r = "json" THEN ReviewsPayload(freelancer_id)
                                             ELSE NonJsonResult
                    ids == sorted(extract_reviewer_ids(payload))
                    missing == SelectSeq(ids, LAMBDA rid : CacheGet(cache_db, rid) = << >>)
                IN /\ reviewer_ids' = ids
                   /\ batches' = chunked(missing, users_batch_size)
                   /\ reviews_seen' = extract_reviews(payload)
                   /\ missing_ids' = missing
                   /\ requested' = << >>
                   /\ pc' = IF missing = << >> THEN StepAfterBatches ELSE "fetch_users"
                   /\ done_steps' = <<"reviews">>
                   /\ UNCHANGED <<exit, directory_state, offset, index_in_page, users, idx>>
    /\ UNCHANGED <<files, runs, kills, effects>>

\* lines 96-106: the rows built from the payload of a batch, closed accounts left out
OpenUsers(payload) ==
    LET users_map == extract_users_map(payload)
    IN sorted({u \in DOMAIN users_map : ~minimize_user(users_map[u]).closed})
CacheRows(payload) ==
    LET users_map == extract_users_map(payload)
        open == OpenUsers(payload)
    IN [i \in 1..Len(open) |-> <<open[i], minimize_user(users_map[open[i]])>>]
SupabaseRows(payload) ==
    LET users_map == extract_users_map(payload)
        open == OpenUsers(payload)
    IN [i \in 1..Len(open) |->
          to_supabase_client_row(open[i], minimize_user(users_map[open[i]]))]

\* lines 92-113, one batch
FetchUsersByIds ==
    /\ pc = "fetch_users"
    /\ UNCHANGED <<http_vars, lim_vars, cache_vars, supabase_configured, utc_now>>
    /\ IF ~CallBinds(fetch_users_by_ids_params, fetch_users_by_ids_call)
       THEN /\ EndRun("TypeError")
            /\ last_fetch' = <<"none", "none">>
            /\ UNCHANGED <<files, effects, requested, _warned_missing>>
       ELSE \E r \in RequestResults :
            /\ last_fetch' = <<"users", r>>
            /\ requested' = Append(requested, Head(batches))
            /\ IF r = "raise"
               THEN /\ EndRun("fetch_error")
                    /\ UNCHANGED <<files, effects, _warned_missing>>
               ELSE LET payload == IF r = "json" THEN UsersPayload(Head(batches))
                                                 ELSE NonJsonResult
                        cache_rows == CacheRows(payload)
                        supabase_rows == SupabaseRows(payload)
                    IN /\ supabase' = IF SinkStores(supabase_rows)
                                      THEN upsert_users(supabase, supabase_rows)
                                      ELSE supabase
                       /\ _warned_missing' =
                            (_warned_missing
                               \/ (SinkWrites(supabase_rows) /\ get_supabase_client_raises))
                       /\ cache_db' = IF cache_rows = << >> THEN cache_db
                                      ELSE commit(cache_db, set_many(cache_db, cache_rows))
                       /\ effects' = IF cache_rows = << >> THEN effects
                                     ELSE effects \cup {Position}
                       /\ batches' = Tail(batches)
                       /\ pc' = IF Tail(batches) = << >> THEN StepAfterBatches
                                ELSE "fetch_users"
                       /\ done_steps' = done_steps \o <<"users", "upsert", "set_many", "commit">>
                       /\ UNCHANGED <<directory, json_cache, state_file, leads, exit,
                                      directory_state, offset, index_in_page, users, idx,
                                      reviewer_ids>>
    /\ UNCHANGED <<runs, kills, reviews_seen, missing_ids>>

\* lines 115-124
AppendLead ==
    /\ pc = "append"
    /\ UNCHANGED <<http_vars, aux_vars, ghost_vars>>
    /\ leads' = append_jsonl(leads, lead_record)
    /\ effects' = effects \cup {Position}
    /\ done_steps' = Append(done_steps, "append")
    /\ pc' = "save"
    /\ last_fetch' = <<"none", "none">>
    /\ UNCHANGED <<directory, json_cache, state_file, cache_db, supabase, exit, locals,
                   runs, kills>>

\* lines 126-130
SaveProgress ==
    /\ pc = "save"
    /\ UNCHANGED <<http_vars, aux_vars, ghost_vars>>
    /\ directory_state' = ProgressAfterEntity(offset, idx)
    /\ state_file' = save_json_atomic([directory |-> directory_state'])
    /\ idx' = idx + 1
    /\ pc' = "entity"
    /\ done_steps' = << >>
    /\ last_fetch' = <<"none", "none">>
    /\ UNCHANGED <<directory, json_cache, leads, cache_db, supabase, exit, offset,
                   index_in_page, users, reviewer_ids, batches, runs, kills, effects>>

\* lines 139-144
PageCompleted ==
    /\ pc = "entity"
    /\ UNCHANGED <<http_vars, aux_vars, ghost_vars>>
    /\ idx >= Len(users)
    /\ offset' = offset + directory_limit
    /\ index_in_page' = 0
    /\ directory_state' = DictSet(DictSet(directory_state, "offset", offset + directory_limit),
                                  "index_in_page", 0)
    /\ state_file' = save_json_atomic([directory |-> directory_state'])
    /\ pc' = "fetch_page"
    /\ users' = << >>
    /\ idx' = 0
    /\ last_fetch' = <<"none", "none">>
    /\ UNCHANGED <<directory, json_cache, leads, cache_db, supabase, exit, reviewer_ids,
                   batches, runs, kills, done_steps, effects>>

\* the process is terminated from outside, at any point of a run
Kill ==
    /\ pc # "idle"
    /\ UNCHANGED <<http_vars, aux_vars, ghost_vars>>
    /\ EndRun("killed")
    /\ kills' = kills + 1
    /\ last_fetch' = <<"none", "none">>
    /\ UNCHANGED <<files, runs, effects>>

Next ==
    \/ Start
    \/ FetchDirectoryPage
    \/ SkipProcessed
    \/ SkipMalformed
    \/ ExtractIdRaises
    \/ FetchReviews
    \/ FetchUsersByIds
    \/ AppendLead
    \/ SaveProgress
    \/ PageCompleted
    \/ Kill

\* a process started with or without the sink's credentials in CONFIG
SinkNew ==
    /\ supabase_configured \in BOOLEAN
    /\ _warned_missing = FALSE
    /\ utc_now = 0

Init == PipeInit /\ HttpIdle /\ LimiterIdle /\ CacheIdle /\ SinkNew

Spec == Init /\ [][Next]_vars

\* the runs that meet no failure: no fetch raises and no process is terminated.
\* A running process takes its next step: the program is sequential and none of
\* its steps waits for anything but the answer of a fetch.
NextSteady ==
    \/ Start
    \/ FetchDirectoryPage /\ exit' # "fetch_error"
    \/ SkipProcessed
    \/ SkipMalformed
    \/ ExtractIdRaises
    \/ FetchReviews /\ exit' # "fetch_error"
    \/ FetchUsersByIds /\ exit' # "fetch_error"
    \/ AppendLead
    \/ SaveProgress
    \/ PageCompleted

\* a step of a process that is running; whether a further run is ever started is
\* up to the operator
RunStep == NextSteady /\ pc # "idle"

SpecSteady == Init /\ [][NextSteady]_vars /\ WF_vars(RunStep)

\* contents state.json may have when the first run starts
StateFiles ==
    {<< >>, <<InvalidJson>>, <<JsonList>>, <<EmptyObject>>, <<NullDirectory>>,
     <<[directory |-> ProgressAfterEntity(0, 0)]>>}

\* the pipeline over a state.json left by anything
NextCorrupt ==
    \/ Next
    \/ StartRaises

InitCorrupt ==
    /\ PipeBlank
    /\ state_file \in StateFiles
    /\ json_cache \in LegacyCaches
    /\ HttpIdle
    /\ LimiterIdle
    /\ CacheIdle
    /\ SinkNew

SpecCorrupt == InitCorrupt /\ [][NextCorrupt]_vars

\* client.get: lines 68-81
Call ==
    /\ result.kind = "idle"
    /\ UNCHANGED <<pipe_vars, ghost_vars, aux_vars>>
    /\ result' = Running
    /\ attempt' = 0
    /\ last_exc' = << >>
    /\ last_status' = << >>
    /\ last_text' = << >>
    /\ UNCHANGED <<resp, slept, waits, outcome, history, trace>>

\* lines 83-119: one turn of the loop
Attempt ==
    /\ result.kind = "running"
    /\ UNCHANGED <<pipe_vars, ghost_vars, aux_vars>>
    /\ attempt <= max_retries
    /\ waits' = waits + Len(WaitsOfTurn(attempt))
    /\ \E o \in Outcomes :
        /\ outcome' = o
        /\ trace' = trace \o WaitsOfTurn(attempt)
                         \o (IF o.kind = "auth" THEN << >> ELSE <<"request">>)
        /\ history' = Append(history, [kind |-> o.kind, exc |-> o.exc,
                                       status |-> o.status, body_len |-> o.body_len])
        /\ CASE o.kind = "auth" ->
                  \* ValueError of get_headers, caught by `except ValueError`, whose
                  \* handler reads resp
                  /\ result' = IF resp = << >>
                               THEN Outcome("raise", "attempt", "UnboundLocalError", << >>, << >>)
                               ELSE ReturnNonJson(resp[1])
                  /\ slept' = << >>
                  /\ UNCHANGED <<attempt, last_exc, last_status, last_text, resp>>
             [] o.kind = "transport" ->
                  /\ last_exc' = <<o.exc>>
                  /\ IF SleepRaises(_backoff(attempt))
                     THEN /\ result' = Outcome("raise", "attempt", "ValueError", << >>, << >>)
                          /\ slept' = << >>
                          /\ UNCHANGED attempt
                     ELSE /\ slept' = <<_backoff(attempt)>>
                          /\ attempt' = attempt + 1
                          /\ UNCHANGED result
                  /\ UNCHANGED <<last_status, last_text, resp>>
             [] o.kind = "response" ->
                  /\ resp' = <<o>>
                  /\ last_status' = <<o.status>>
                  /\ last_text' = <<Snippet(o.body_len)>>
                  /\ UNCHANGED last_exc
                  /\ IF o.status \in TransientStatuses
                     THEN LET sleep_s == _compute_retry_sleep(o.retry_after, attempt)
                          IN IF SleepRaises(sleep_s)
                             THEN \* ValueError of time.sleep, caught by `except ValueError`
                                  /\ result' = ReturnNonJson(o)
                                  /\ slept' = << >>
                                  /\ UNCHANGED attempt
                             ELSE /\ slept' = <<sleep_s>>
                                  /\ attempt' = attempt + 1
                                  /\ UNCHANGED result
                     ELSE /\ slept' = << >>
                          /\ UNCHANGED attempt
                          /\ result' =
                               IF RaisesForStatus(o.status)
                               THEN Outcome("raise", "attempt", "HTTPError", <<o.status>>, << >>)
                               ELSE IF o.body_json THEN ReturnJson ELSE ReturnNonJson(o)

\* lines 121-126: the loop is over
Exhausted ==
    /\ result.kind = "running"
    /\ UNCHANGED <<pipe_vars, ghost_vars, aux_vars>>
    /\ attempt > max_retries
    /\ result' = ExhaustedError(last_exc, last_status, last_text)
    /\ slept' = << >>
    /\ UNCHANGED <<attempt, last_exc, last_status, last_text, resp, waits, outcome, history,
                   trace>>

NextHttp ==
    \/ Call
    \/ Attempt
    \/ Exhausted

InitHttp ==
    /\ PipeInit
    /\ directory = << >>
    /\ json_cache = << >>
    /\ HttpIdle
    /\ LimiterIdle
    /\ CacheIdle
    /\ SinkIdle

SpecHttp == InitHttp /\ [][NextHttp]_vars

\* ---------------------------------------------- calls of RateLimiter.wait
\* one call of wait(), made some time after the previous one returned
Wait ==
    /\ Len(stamps) < MaxCalls
    /\ \E d \in CallerDelays, jitter \in 0..jitter_s, late \in Lateness :
        LET after == wait(clock + d, jitter, late)
        IN /\ _last_ts' = after._last_ts
           /\ _window' = after._window
           /\ clock' = after._last_ts
           /\ stamps' = Append(stamps, after._last_ts)
    /\ UNCHANGED <<min_interval_s, requests_per_minute, jitter_s>>
    /\ UNCHANGED <<pipe_vars, ghost_vars, http_vars, cache_vars, sink_vars>>

NextLimiter == Wait

InitLimiter ==
    /\ PipeInit
    /\ directory = << >>
    /\ json_cache = << >>
    /\ HttpIdle
    /\ CacheIdle
    /\ SinkIdle
    /\ LimiterNew
    /\ min_interval_s \in Intervals
    /\ requests_per_minute \in RpmCaps
    /\ jitter_s \in JitterCaps

SpecLimiter == InitLimiter /\ [][NextLimiter]_vars

\* ------------------------------- storing the users of a fetched batch
\* payloads stored in a behaviour
MaxStores == 3
\* the batches whose payloads are stored
StoreBatches == {<<5>>, <<6>>, <<7>>, <<5, 6>>, <<6, 7>>}
\* time that passes between two batches
StoreDelays == {0, 1}

\* lines 96-113 of run_lead_generation for the payload of one batch: the rows, the
\* upsert to the sink, set_many and commit
StoreBatch ==
    /\ Len(requested) < MaxStores
    /\ \E batch \in StoreBatches, d \in StoreDelays :
        LET payload == UsersPayload(batch)
            cache_rows == CacheRows(payload)
            supabase_rows == SupabaseRows(payload)
        IN /\ supabase' = IF SinkStores(supabase_rows)
                          THEN upsert_users(supabase, supabase_rows)
                          ELSE supabase
           /\ _warned_missing' =
                (_warned_missing
                   \/ (SinkWrites(supabase_rows) /\ get_supabase_client_raises))
           /\ cache_db' = IF cache_rows = << >> THEN cache_db
                          ELSE commit(cache_db, set_many(cache_db, cache_rows))
           /\ requested' = Append(requested, batch)
           /\ utc_now' = utc_now + d
    /\ UNCHANGED <<directory, json_cache, state_file, leads, pc, exit, directory_state,
                   offset, index_in_page, users, idx, reviewer_ids, batches, runs, kills,
                   last_fetch, done_steps, effects>>
    /\ UNCHANGED <<reviews_seen, missing_ids, supabase_configured>>
    /\ UNCHANGED <<http_vars, lim_vars, cache_vars>>

NextStore == StoreBatch

InitStore ==
    /\ PipeFresh
    /\ directory = << >>
    /\ json_cache = << >>
    /\ HttpIdle
    /\ LimiterIdle
    /\ CacheIdle
    /\ SinkNew

SpecStore == InitStore /\ [][NextStore]_vars

\* ------------------------------------------- properties of a request
Ended == result.kind \in {"return", "raise"}
TransientFailure(h) ==
    h.kind = "transport" \/ (h.kind = "response" /\ h.status \in TransientStatuses)
MetTransientStatus == outcome.kind = "response" /\ outcome.status \in TransientStatuses
TransportFailures == {i \in 1..Len(history) : history[i].kind = "transport"}
LastOf(S) == CHOOSE i \in S : \A j \in S : j <= i

\* C6: a request makes at most max_retries + 1 attempts, and when every attempt
\* ends in a transient failure it makes exactly max_retries + 1 attempts and then
\* raises instead of returning a value.
C6_RetriesExactlyMaxRetries ==
    /\ Len(history) <= max_retries + 1
    /\ (Ended /\ \A i \in 1..Len(history) : TransientFailure(history[i])) =>
          /\ Len(history) = max_retries + 1
          /\ result.kind = "raise"

\* C7: an attempt that returns a transient status sleeps min(backoff_max,
\* Retry-After) when the header is present and parses as a number (zero and
\* negative values included), else min(backoff_max, backoff_base * 2^attempt), and
\* neither returns nor raises: the request goes on, to the next attempt or, with
\* none left, to the end of the loop.
C7_TransientStatusSleepsAndRetries ==
    MetTransientStatus =>
        /\ result.where # "attempt"
        /\ (result.kind = "running" =>
              slept = <<IF outcome.retry_after # << >>
                           /\ ParseFloat(outcome.retry_after[1]) # << >>
                        THEN Min(backoff_max_s, ParseFloat(outcome.retry_after[1])[1])
                        ELSE Min(backoff_max_s, backoff_base_s * Pow2(Len(history) - 1))>>)

\* C8: an attempt that returns a non-2xx status outside the transient set makes the
\* request fail at once with an error: no sleep, no further attempt, no value.
C8_OtherStatusFailsAtOnce ==
    (/\ outcome.kind = "response"
     /\ ~(200 <= outcome.status /\ outcome.status <= 299)
     /\ outcome.status \notin TransientStatuses) =>
        /\ result.kind = "raise"
        /\ result.where = "attempt"
        /\ slept = << >>

\* C9 as stated: once all attempts are used up, the error raised reflects the last
\* failure: the transport exception of the final attempt, or a retry-exhaustion
\* error with the status and the body snippet (at most 500 characters) of the
\* final attempt.
C9_ErrorReflectsLastFailure ==
    result.where = "after_loop" =>
        IF outcome.kind = "transport"
        THEN result.exc = outcome.exc
        ELSE /\ result.exc = "RuntimeError"
             /\ result.status = <<outcome.status>>
             /\ result.text = <<Min(outcome.body_len, 500)>>

\* C9 as amended: once all max_retries + 1 attempts are used up by transient
\* statuses and transport failures, the error raised is the last transport
\* exception if any attempt failed at the transport level; only when none did is it
\* the retry-exhaustion error, with the status of the final attempt and its body
\* snippet of at most 500 characters.
C9_ErrorAfterExhaustion ==
    result.where = "after_loop" =>
        /\ result.kind = "raise"
        /\ Len(history) = max_retries + 1
        /\ \A i \in 1..Len(history) : TransientFailure(history[i])
        /\ IF TransportFailures # {}
           THEN result.exc = history[LastOf(TransportFailures)].exc
           ELSE /\ result.exc = "RuntimeError"
                /\ result.status = <<history[Len(history)].status>>
                /\ result.text = <<Min(history[Len(history)].body_len, 500)>>
                /\ result.text[1] <= 500

\* the first attempt timed out, the final one returned a transient status with a
\* long body, and the request raised
C9_Witness ==
    /\ result.where = "after_loop"
    /\ history[1].kind = "transport"
    /\ history[Len(history)].kind = "response"
    /\ history[Len(history)].body_len > 500

Count(s, e) == Len(SelectSeq(s, LAMBDA x : x = e))

\* C11: every attempt of a request (every turn of the retry loop, the first one and
\* each retry) is preceded by exactly one call of RateLimiter.wait(): the calls of
\* wait() are as many as the attempts, and every HTTP request issued comes right
\* after a wait() of its own. (A turn whose headers cannot be built has waited and
\* issues no request.)
C11_WaitBeforeEveryAttempt ==
    /\ waits = Len(history)
    /\ Count(trace, "wait") = waits
    /\ Count(trace, "request") = Len(SelectSeq(history, LAMBDA h : h.kind # "auth"))
    /\ \A i \in 1..Len(trace) :
          trace[i] = "request" => (i > 1 /\ trace[i - 1] = "wait")

\* a request that used up its attempts, each of them an HTTP request after a wait
C11_Witness ==
    /\ result.where = "after_loop"
    /\ Count(trace, "request") = max_retries + 1
    /\ waits = max_retries + 1

\* ------------------------------------------- calls of SqliteUserCache
\* SqliteUserCache.__init__: lines 16-31
Open ==
    /\ cache_ops < MaxCacheOps
    /\ conn = << >>
    /\ conn' = <<cache_db>>
    /\ opens' = opens + 1
    /\ returned' = Ret("open", 0, << >>, << >>, 0)
    /\ cache_ops' = cache_ops + 1
    /\ UNCHANGED <<cache_db, unsaved, saved, written>>
    /\ UNCHANGED <<pipe_rest, ghost_vars, http_vars, lim_vars, sink_vars>>

\* SqliteUserCache.get: lines 39-49
Get ==
    /\ cache_ops < MaxCacheOps
    /\ conn # << >>
    /\ \E uid \in CacheIds :
        returned' = Ret("get", uid, << >>, CacheGet(conn[1], uid), 0)
    /\ cache_ops' = cache_ops + 1
    /\ UNCHANGED <<cache_db, conn, unsaved, saved, written, opens>>
    /\ UNCHANGED <<pipe_rest, ghost_vars, http_vars, lim_vars, sink_vars>>

\* SqliteUserCache.set: lines 51-55
Set ==
    /\ cache_ops < MaxCacheOps
    /\ conn # << >>
    /\ \E uid \in {5, 6}, obj \in Records :
        /\ conn' = <<CacheSet(conn[1], uid, obj)>>
        /\ unsaved' = Over(unsaved, LatestOf(<< <<uid, obj>> >>))
        /\ written' = written \cup {uid}
        /\ returned' = Ret("set", uid, << <<uid, obj>> >>, << >>, 0)
    /\ cache_ops' = cache_ops + 1
    /\ UNCHANGED <<cache_db, saved, opens>>
    /\ UNCHANGED <<pipe_rest, ghost_vars, http_vars, lim_vars, sink_vars>>

\* SqliteUserCache.set_many: lines 57-65
SetMany ==
    /\ cache_ops < MaxCacheOps
    /\ conn # << >>
    /\ \E rows \in Batches :
        /\ conn' = <<IF rows = << >> THEN conn[1] ELSE set_many(conn[1], rows)>>
        /\ unsaved' = Over(unsaved, LatestOf(rows))
        /\ written' = written \cup {rows[i][1] : i \in 1..Len(rows)}
        /\ returned' = Ret("set_many", 0, rows, << >>, 0)
    /\ cache_ops' = cache_ops + 1
    /\ UNCHANGED <<cache_db, saved, opens>>
    /\ UNCHANGED <<pipe_rest, ghost_vars, http_vars, lim_vars, sink_vars>>

\* SqliteUserCache.commit: lines 67-68
Commit ==
    /\ cache_ops < MaxCacheOps
    /\ conn # << >>
    /\ cache_db' = commit(cache_db, conn[1])
    /\ saved' = Over(saved, unsaved)
    /\ unsaved' = << >>
    /\ returned' = Ret("commit", 0, << >>, << >>, 0)
    /\ cache_ops' = cache_ops + 1
    /\ UNCHANGED <<conn, written, opens>>
    /\ UNCHANGED <<pipe_rest, ghost_vars, http_vars, lim_vars, sink_vars>>

\* SqliteUserCache.close: lines 33-37; what was not committed is rolled back
Close ==
    /\ cache_ops < MaxCacheOps
    /\ conn # << >>
    /\ conn' = << >>
    /\ unsaved' = << >>
    /\ returned' = Ret("close", 0, << >>, << >>, 0)
    /\ cache_ops' = cache_ops + 1
    /\ UNCHANGED <<cache_db, saved, written, opens>>
    /\ UNCHANGED <<pipe_rest, ghost_vars, http_vars, lim_vars, sink_vars>>

\* the process that holds the connection is terminated
Terminate ==
    /\ cache_ops < MaxCacheOps
    /\ conn # << >>
    /\ conn' = << >>
    /\ unsaved' = << >>
    /\ returned' = Ret("terminate", 0, << >>, << >>, 0)
    /\ cache_ops' = cache_ops + 1
    /\ UNCHANGED <<cache_db, saved, written, opens>>
    /\ UNCHANGED <<pipe_rest, ghost_vars, http_vars, lim_vars, sink_vars>>

\* migrate_json_cache_to_sqlite: lines 71-114, on a connection of its own
Migrate ==
    /\ cache_ops < MaxCacheOps
    /\ conn = << >>
    /\ cache_db' = migrate_json_cache_to_sqlite(json_cache, cache_db)
    /\ saved' = Over(saved, LatestOf(MigrationBatch(json_cache)))
    /\ written' = written \cup DOMAIN LatestOf(MigrationBatch(json_cache))
    /\ returned' = Ret("migrate", 0, << >>, << >>, Migrated(json_cache))
    /\ cache_ops' = cache_ops + 1
    /\ UNCHANGED <<conn, unsaved, opens>>
    /\ UNCHANGED <<pipe_rest, ghost_vars, http_vars, lim_vars, sink_vars>>

NextCache ==
    \/ Open
    \/ Get
    \/ Set
    \/ SetMany
    \/ Commit
    \/ Close
    \/ Terminate
    \/ Migrate

InitCache ==
    /\ PipeFresh
    /\ directory = << >>
    /\ json_cache \in Documents
    /\ HttpIdle
    /\ LimiterIdle
    /\ CacheIdle
    /\ SinkIdle

SpecCache == InitCache /\ [][NextCache]_vars

\* --------------------------------------------- properties of the cache
\* the index of the last row of the batch that carries the id
LastRow(rows, uid) ==
    CHOOSE i \in 1..Len(rows) :
        rows[i][1] = uid /\ \A j \in 1..Len(rows) : rows[j][1] = uid => j <= i

\* C14: after set_many(batch), get(id) returns for every id of the batch the record
\* the batch stored for it last, returns for every other id what it returned
\* before, and returns absent for an id that was never written.
C14_GetAfterSetMany ==
    [][ returned'.op = "set_many" =>
          LET rows == returned'.batch
              ids == {rows[i][1] : i \in 1..Len(rows)}
          IN /\ \A u \in ids :
                   CacheGet(conn'[1], u) = <<rows[LastRow(rows, u)][2]>>
             /\ \A u \in CacheIds \ ids :
                   CacheGet(conn'[1], u) = CacheGet(conn[1], u)
             /\ \A u \in CacheIds \ written' :
                   CacheGet(conn'[1], u) = << >> ]_vars

\* a batch that writes one id twice with different records into a table that holds
\* another id
C14_Witness ==
    /\ returned.op = "set_many"
    /\ Len(returned.batch) = 2
    /\ returned.batch[1][1] = returned.batch[2][1]
    /\ returned.batch[1][2] # returned.batch[2][2]
    /\ DOMAIN conn[1] \ {returned.batch[1][1]} # {}

\* C15: whatever the calls of set, set_many and commit, and however the connection
\* ended (close or termination of the process), every entry written before the
\* last commit is in the file with its committed value, and a connection opened
\* afterwards returns it from get().
C15_CommittedEntriesSurvive ==
    /\ \A u \in DOMAIN saved : CacheGet(cache_db, u) = <<saved[u]>>
    /\ conn # << >> =>
          \A u \in DOMAIN saved \ DOMAIN unsaved : CacheGet(conn[1], u) = <<saved[u]>>
    /\ (returned.op = "get" /\ returned.id \in DOMAIN saved \ DOMAIN unsaved) =>
          returned.value = <<saved[returned.id]>>

\* a second connection returns a committed entry, while a write that was never
\* committed is gone
C15_Witness ==
    /\ opens >= 2
    /\ unsaved = << >>
    /\ returned.op = "get"
    /\ returned.id \in DOMAIN saved
    /\ returned.value # << >>
    /\ written \ DOMAIN saved # {}

\* C16: after migrate_json_cache_to_sqlite every entry of the document that is not
\* flagged closed is returned by get(id) with the same record, no closed entry of
\* the document has been written, entries of other ids are as before, and the count
\* returned is the number of entries migrated.
C16_MigrationKeepsOpenEntries ==
    [][ returned'.op = "migrate" =>
          /\ \A k \in DOMAIN json_cache :
                IF json_cache[k].closed
                THEN /\ CacheGet(cache_db', IntOf(k)[1]) = CacheGet(cache_db, IntOf(k)[1])
                     /\ CacheGet(cache_db', IntOf(k)[1]) # <<json_cache[k]>>
                ELSE CacheGet(cache_db', IntOf(k)[1]) = <<json_cache[k]>>
          /\ \A u \in CacheIds \ {IntOf(k)[1] : k \in DOMAIN json_cache} :
                CacheGet(cache_db', u) = CacheGet(cache_db, u)
          /\ returned'.n = Cardinality({k \in DOMAIN json_cache : ~json_cache[k].closed}) ]_vars

\* a document with two open entries and a closed one was migrated into a table
\* that held an entry already
C16_Witness ==
    /\ returned.op = "migrate"
    /\ returned.n = 2
    /\ "7" \in DOMAIN json_cache
    /\ CacheGet(cache_db, 7) = << >>
    /\ opens >= 1
    /\ CacheGet(cache_db, 5) # << >>

\* ------------------------------------------- properties of the limiter
\* C12: the timestamps recorded by two successive calls of wait() on one limiter
\* differ by at least min_interval_s, whatever the jitter drawn and the time the
\* caller lets pass between the calls.
C12_SuccessiveCallsApart ==
    \A i \in 2..Len(stamps) : stamps[i] - stamps[i - 1] >= min_interval_s

\* a call that had to sleep the whole interval, then one made after a long pause
C12_Witness ==
    /\ min_interval_s = 2
    /\ Len(stamps) >= 3
    /\ stamps[2] - stamps[1] = 2
    /\ stamps[3] - stamps[2] >= 60

\* the recorded timestamps, or window entries, less than window_s older than t
Within(s, t) == {i \in 1..Len(s) : t - window_s < s[i] /\ s[i] <= t}

\* C13: with a cap R configured, at most R recorded timestamps lie within any
\* window of 60 time units, and the sliding window never holds more than R entries
\* that are still inside the window.
C13_WindowHoldsCap ==
    CapOn(requests_per_minute) =>
        /\ \A i \in 1..Len(stamps) :
              Cardinality(Within(stamps, stamps[i])) <= requests_per_minute[1]
        /\ Cardinality(Within(_window, clock)) <= requests_per_minute[1]

\* ------------------------------------------ properties of the pipeline
\* the cursor a new process would find, read off the file itself
Cursor ==
    IF state_file = << >>
    THEN [offset |-> 0, index_in_page |-> 0]
    ELSE [offset |-> state_file[1].directory.offset,
          index_in_page |-> state_file[1].directory.index_in_page]

\* the page offset and in-page index of the i-th entity of the directory
PosOf(i) == [offset |-> ((i - 1) \div directory_limit) * directory_limit,
             idx |-> (i - 1) % directory_limit]
Before(p, c) ==
    p.offset < c.offset \/ (p.offset = c.offset /\ p.idx < c.index_in_page)

WithId == {i \in 1..Len(directory) : HasId(directory[i])}
DirIds == LET s == SelectSeq(directory, HasId)
          IN [i \in 1..Len(s) |-> extract_user_id(s[i])]
LeadIds == [k \in 1..Len(leads) |-> leads[k].freelancer_user_id]

RECURSIVE Collapse(_)
Collapse(s) ==
    IF Len(s) <= 1 THEN s
    ELSE IF s[1] = s[2] THEN Collapse(Tail(s)) ELSE <<s[1]>> \o Collapse(Tail(s))

\* every entity once and in directory order, but for one repeated record per termination
LogComplete == Collapse(LeadIds) = DirIds /\ Len(leads) <= Len(DirIds) + kills

\* the process ended by itself: it returned or it raised something other than a fetch error
EndedByItself == pc = "idle" /\ exit \in {"ok", "TypeError"}
\* ... and its last directory page was decoded
LastPageDecoded == last_fetch # <<"directory", "nonjson">>

InFlight == pc \in {"fetch_users", "append", "save"}

\* C1: for every directory and every sequence of terminations, each followed by a
\* run that resumes from the persisted cursor, a run that is not itself terminated
\* and meets no fetch failure leaves every entity exactly once in the output log,
\* except one repeated record per termination.
C1_LogEndsUpWithEveryEntity ==
    (EndedByItself /\ LastPageDecoded) => LogComplete

\* The part of C1 the code keeps: a run that returns after a decoded empty page has
\* logged every entity once, in order, with at most one repeat per termination.
ReturnedRunLogComplete ==
    (pc = "idle" /\ exit = "ok" /\ LastPageDecoded) => LogComplete

ReturnedRunLogCompleteWitness ==
    /\ pc = "idle" /\ exit = "ok" /\ LastPageDecoded
    /\ kills >= 1
    /\ Len(leads) = Len(DirIds) + 1
    /\ Len(DirIds) >= 2

\* C2: in every state the persisted cursor skips no entity: every entity with an id
\* before the cursor has its LeadRecord in the log, and at most one entity at or
\* after the cursor has a side effect (sink upsert, cache write, log append) done.
C2_CursorNeverSkips ==
    /\ \A i \in WithId :
          Before(PosOf(i), Cursor) =>
             \E k \in 1..Len(leads) :
                leads[k].freelancer_user_id = extract_user_id(directory[i])
    /\ Cardinality({p \in effects : ~Before(p, Cursor)}) <= 1
    /\ InFlight => (offset = Cursor.offset /\ idx = Cursor.index_in_page)

\* a process was terminated between the log append and the cursor write of the
\* second entity of a page
C2_Witness ==
    /\ pc = "idle" /\ exit = "killed"
    /\ Cursor.index_in_page = 1
    /\ \E p \in effects : ~Before(p, Cursor)
    /\ \E p \in effects : Before(p, Cursor)

\* the steps of one entity, in the order of the code: the reviews fetch, then per
\* batch the users fetch, the sink upsert, the cache write and its commit, then the
\* log append
StepsComplete(s) ==
    /\ Len(s) >= 2
    /\ (Len(s) - 2) % 4 = 0
    /\ s[1] = "reviews"
    /\ s[Len(s)] = "append"
    /\ \A b \in 0..((Len(s) - 2) \div 4 - 1) :
          SubSeq(s, 4 * b + 2, 4 * b + 5) = <<"users", "upsert", "set_many", "commit">>

\* the entities with an id that a step moves the persisted cursor over
NewlyCovered == {i \in WithId : ~Before(PosOf(i), Cursor) /\ Before(PosOf(i), Cursor')}

\* C3: the cursor write with index_in_page = idx + 1 comes after the entity's
\* reviews fetch, every sink upsert, cache write and commit, and the log append of
\* its LeadRecord: no step moves the persisted cursor over an entity unless that
\* entity is the one in flight and all its steps are done.
C3_CursorWrittenLast ==
    [][ \A i \in NewlyCovered :
           /\ pc = "save"
           /\ PosOf(i) = Position
           /\ Cursor'.index_in_page = idx + 1
           /\ StepsComplete(done_steps)
           /\ batches = << >>
           /\ leads # << >>
           /\ leads[Len(leads)].freelancer_user_id = extract_user_id(directory[i])
           /\ leads' = leads ]_vars

\* the cursor was written for an entity whose reviewers were resolved from the cache
C3_Witness ==
    /\ pc = "entity"
    /\ idx >= 1
    /\ Cursor = [offset |-> offset, index_in_page |-> idx]
    /\ leads # << >>
    /\ HasId(users[idx])
    /\ leads[Len(leads)].freelancer_user_id = extract_user_id(users[idx])
    /\ leads[Len(leads)].reviewers # << >>

\* C4: a directory, reviews or batch-user fetch that fails unrecoverably ends the
\* run with the error; no LeadRecord is appended for the entity in flight, the
\* persisted cursor keeps its value, and the next run processes exactly the entity
\* at that cursor first.
C4_FetchFailureStopsRun ==
    [][ /\ last_fetch'[2] = "raise" =>
             /\ pc' = "idle"
             /\ exit' = "fetch_error"
             /\ leads' = leads
             /\ state_file' = state_file
             /\ ~\E k \in 1..Len(done_steps) : done_steps[k] = "append"
        /\ (exit = "fetch_error" /\ pc = "idle" /\ pc' # "idle") =>
             /\ state_file' = state_file
             /\ leads' = leads
        /\ (exit' = "fetch_error" /\ pc = "entity" /\ pc' \in {"fetch_users", "append"}) =>
             /\ offset' = Cursor'.offset
             /\ idx' = Cursor'.index_in_page ]_vars

\* a run that follows a failed reviews fetch of the second entity of a page is
\* processing that entity again
C4_Witness ==
    /\ exit = "fetch_error"
    /\ pc = "append"
    /\ idx = 1
    /\ Cursor.index_in_page = 1
    /\ Len(leads) = 1

\* the offset of the first page of the directory that holds no entity
FirstEmptyOffset ==
    ((Len(directory) + directory_limit - 1) \div directory_limit) * directory_limit

\* C5: a run that is not terminated and meets no fetch failure, started from the
\* initial cursor, writes exactly one LeadRecord per entity in directory order and
\* returns with the cursor at the offset of the first empty page, index_in_page = 0.
C5_UninterruptedRun ==
    (runs = 1 /\ EndedByItself /\ LastPageDecoded) =>
        /\ exit = "ok"
        /\ LeadIds = DirIds
        /\ Cursor = [offset |-> FirstEmptyOffset, index_in_page |-> 0]

\* C10: a non-JSON result of a fetch (directory page, reviews or batch users) does
\* not end the run: the process is still running after the step that received it.
C10_NonJsonKeepsRunAlive ==
    last_fetch[2] = "nonjson" => pc # "idle"

\* the closed accounts among the ids
Closed(ids) == SelectSeq(ids, LAMBDA u : u \in ClosedUsers)

StrictlyIncreasing(s) == \A i \in 1..(Len(s) - 1) : s[i] < s[i + 1]
\* the reviewer ids the reviews carry, by from_user_id or by an embedded from_user
Carried(reviews) ==
    {reviews[i].from_user_id :
        i \in {j \in 1..Len(reviews) : "from_user_id" \in DOMAIN reviews[j]}}
    \cup {reviews[i].from_user.id :
        i \in {j \in 1..Len(reviews) : "from_user" \in DOMAIN reviews[j]}}
Range(s) == {s[i] : i \in 1..Len(s)}

\* C18: the reviewer ids derived for an entity are strictly increasing and are
\* exactly the distinct reviewer ids the reviews carry, and so are the reviewer_ids
\* of every LeadRecord.
C18_ReviewerIdsSortedDistinct ==
    /\ pc \in {"fetch_users", "append", "save"} =>
          /\ StrictlyIncreasing(reviewer_ids)
          /\ Range(reviewer_ids) = Carried(reviews_seen)
    /\ \A k \in 1..Len(leads) : StrictlyIncreasing(leads[k].reviewer_ids)
    /\ pc = "save" => leads[Len(leads)].reviewer_ids = reviewer_ids

\* reviews from 6, 5, 6 gave the LeadRecord the reviewer ids 5, 6
C18_Witness ==
    /\ pc = "save"
    /\ Len(reviews_seen) = 3
    /\ reviews_seen[1].from_user_id > reviews_seen[2].from_user_id
    /\ leads[Len(leads)].reviewer_ids = <<5, 6>>

RECURSIVE Flatten(_)
Flatten(ss) == IF ss = << >> THEN << >> ELSE Head(ss) \o Flatten(Tail(ss))

\* the batch loop of the entity is over, and not by a termination or a failed fetch
BatchLoopLeft ==
    /\ pc # "fetch_users"
    /\ ~(pc = "idle" /\ exit \in {"killed", "fetch_error"})

\* C19: the ids sent to the batch user fetch for an entity are exactly its reviewer
\* ids absent from the cache at partition time: none of them is in the cache, the
\* others are, every missing id is sent in exactly one batch, a batch holds at most
\* users_batch_size ids, and the cache writes of a batch are committed before the
\* next batch is fetched.
C19_BatchesAreTheMissingIds ==
    /\ (pc = "fetch_users" /\ requested = << >>) =>
          missing_ids = SelectSeq(reviewer_ids, LAMBDA u : CacheGet(cache_db, u) = << >>)
    /\ pc = "fetch_users" => Flatten(requested) \o Flatten(batches) = missing_ids
    /\ \A b \in 1..Len(requested) :
          Len(requested[b]) >= 1 /\ Len(requested[b]) <= users_batch_size
    /\ pc \in {"fetch_users", "append", "save"} =>
          Count(done_steps, "commit") = Len(requested)
    /\ BatchLoopLeft => Flatten(requested) = missing_ids

\* C20: a step that changes the log appends exactly one LeadRecord to it, in the
\* append step of the entity in flight: the record carries the entity id, its
\* reviewer ids and, in reviewer-id order, the cache records of those of them that
\* are in the cache; the entity in flight gets no second record, and its cursor
\* write follows exactly one append.
C20_OneLeadRecordPerEntity ==
    [][ /\ leads' # leads =>
             /\ pc = "append" /\ pc' = "save"
             /\ Len(leads') = Len(leads) + 1
             /\ SubSeq(leads', 1, Len(leads)) = leads
             /\ Count(done_steps, "append") = 0
             /\ LET rec == leads'[Len(leads')]
                    cached == SelectSeq(reviewer_ids, LAMBDA u : u \in DOMAIN cache_db)
                IN /\ rec.freelancer_user_id = extract_user_id(users[idx + 1])
                   /\ rec.reviewer_ids = reviewer_ids
                   /\ rec.reviewers =
                        [i \in 1..Len(cached) |-> JsonLoads(cache_db[cached[i]])]
        /\ (pc = "save" /\ pc' = "entity") => Count(done_steps, "append") = 1 ]_vars

\* the second LeadRecord of the log was appended after one that holds two details
C20_Witness ==
    /\ pc = "save"
    /\ Len(leads) = 2
    /\ Len(leads[1].reviewers) = 2
    /\ leads[2].reviewers = << >>

\* the entity the process is at is one from which no integer id can be extracted
NoIdAt ==
    /\ pc = "entity"
    /\ idx < Len(users)
    /\ idx >= index_in_page
    /\ ~(IsObject(users[idx + 1]) /\ HasId(users[idx + 1]))

\* C21: an entity from which no integer id can be extracted is skipped: the step
\* the process takes at it issues no fetch, appends no LeadRecord, leaves cache and
\* sink as they are, persists the cursor at index_in_page = idx + 1 with the offset
\* of the current page, and the process goes on to the next entity.
C21_MalformedEntitySkipped ==
    [][(NoIdAt /\ kills' = kills) =>
          /\ pc' = "entity"
          /\ idx' = idx + 1
          /\ last_fetch' = <<"none", "none">>
          /\ UNCHANGED <<leads, cache_db, supabase>>
          /\ state_file' # << >>
          /\ state_file'[1].directory.offset = offset
          /\ state_file'[1].directory.index_in_page = idx + 1]_vars

\* C21 for the entities that are objects: the skip is as stated
C21_ObjectWithoutIdSkipped ==
    [][(NoIdAt /\ IsObject(users[idx + 1]) /\ kills' = kills) =>
          /\ pc' = "entity"
          /\ idx' = idx + 1
          /\ last_fetch' = <<"none", "none">>
          /\ UNCHANGED <<leads, cache_db, supabase>>
          /\ state_file' # << >>
          /\ state_file'[1].directory.offset = offset
          /\ state_file'[1].directory.index_in_page = idx + 1]_vars
\* lines 139-144 and 68-70: the cursor at the end of a page and at an empty page
CursorAtPageEnd ==
    /\ (pc = "entity" /\ idx >= Len(users) /\ kills' = kills) =>
          /\ offset' = offset + directory_limit
          /\ pc' = "fetch_page"
          /\ state_file' # << >>
          /\ state_file'[1].directory.offset = offset + directory_limit
          /\ state_file'[1].directory.index_in_page = 0
    /\ (pc = "fetch_page" /\ last_fetch' \in {<<"directory", "json">>, <<"directory", "nonjson">>}) =>
          IF extract_users(IF last_fetch'[2] = "json" THEN DirectoryPayload(offset)
                                                      ELSE NonJsonResult) = << >>
          THEN pc' = "idle" /\ exit' = "ok" /\ UNCHANGED state_file
          ELSE pc' = "entity" /\ UNCHANGED state_file

\* C22: after the last entity of a non-empty page the cursor is persisted as
\* (offset + page_size, 0) and the next page is fetched at that offset; an empty
\* result page ends the run successfully and leaves the persisted cursor as it is;
\* and a run that meets no failure eventually ends that way.
C22_PageLoopTerminates ==
    /\ [][CursorAtPageEnd]_vars
    /\ (pc # "idle") ~> (pc = "idle" /\ exit = "ok")

\* C22 without the termination: the cursor at the end of a page and at an empty page
C22_CursorAtPageEnd == [][CursorAtPageEnd]_vars
\* C23: a failure of get_headers during a request is fatal and not retried, on
\* whichever attempt it occurs: the request raises an error within that attempt,
\* returns no value (not the non-JSON wrapper either), sleeps for no retry and
\* makes no further attempt.
C23_AuthFailureIsFatal ==
    outcome.kind = "auth" =>
        /\ result.kind = "raise"
        /\ result.where = "attempt"
        /\ slept = << >>
        /\ history[Len(history)].kind = "auth"

\* C23 for a failure on the first attempt, or after transport failures only
C23_AuthFailureBeforeAnyResponse ==
    (outcome.kind = "auth" /\ resp = << >>) =>
        /\ result.kind = "raise"
        /\ result.where = "attempt"
        /\ slept = << >>
C24_ConfiguredSinkHoldsCachedUsers ==
    supabase_configured => \A u \in DOMAIN cache_db : u \in DOMAIN supabase

\* the step stores the payload the step before it stored
Replayed ==
    /\ requested # << >>
    /\ requested' = Append(requested, requested[Len(requested)])

C26_CacheReplayIsIdempotent ==
    [][Replayed =>
          /\ UNCHANGED cache_db
          /\ DOMAIN supabase' = DOMAIN supabase
          /\ \A u \in DOMAIN supabase :
                /\ supabase'[u].reg_at # << >> => supabase'[u] = supabase[u]
                /\ supabase'[u].username = supabase[u].username]_vars
\* the file holds nothing a cursor can be read from: it is missing, or not JSON, or
\* JSON that is no object with an object under "directory"
Unreadable(file) ==
    \/ file = << >>
    \/ file[1] \in {InvalidJson, JsonList, EmptyObject, NullDirectory}

\* a process starts
Starts == pc = "idle" /\ runs' = runs + 1

\* C25: whatever unreadable content state.json has (missing, invalid JSON, JSON
\* that is not a cursor document), the run that starts does not end at start-up: it
\* takes the default cursor offset = 0, index_in_page = 0 and goes on to fetch the
\* first page.
C25_StateCorruptionRecovered ==
    [][(Starts /\ Unreadable(state_file)) =>
          /\ pc' = "fetch_page"
          /\ offset' = 0
          /\ index_in_page' = 0]_vars

\* C25 for a missing file, text that is not JSON, and the empty object
C25_UndecodableStateRecovered ==
    [][(Starts /\ (state_file = << >> \/ state_file[1] \in {InvalidJson, EmptyObject})) =>
          /\ pc' = "fetch_page"
          /\ offset' = 0
          /\ index_in_page' = 0]_vars
\* C27: with a state file only the program writes, the persisted cursor never moves
\* backwards, over every step of a run and across terminations and resumes: a step
\* leaves it as it is, or adds 1 to index_in_page within the page, or adds the page
\* size to offset and resets index_in_page to 0.
C27_CursorNeverMovesBack ==
    [][\/ Cursor' = Cursor
       \/ /\ Cursor'.offset = Cursor.offset
          /\ Cursor'.index_in_page = Cursor.index_in_page + 1
       \/ /\ Cursor'.offset = Cursor.offset + directory_limit
          /\ Cursor'.index_in_page = 0]_vars

\* a resumed run has taken the cursor into the second page and one entity further
C27_Witness ==
    /\ kills >= 1
    /\ runs >= 2
    /\ Cursor = [offset |-> directory_limit, index_in_page |-> 1]
\* C28: the migration made at the start of a run changes no entry the SQLite cache
\* already holds: every id in the table before the migration is in it afterwards
\* with the same record.
C28_MigrationIsOneTime ==
    [][(returned'.op = "migrate" /\ cache_ops' = cache_ops + 1) =>
          \A u \in DOMAIN cache_db :
              u \in DOMAIN cache_db' /\ cache_db'[u] = cache_db[u]]_vars

\* C28 for runs of the pipeline over a legacy document nobody changes, there from
\* the first run on: the migration of a later run rewrites what the first one wrote
C28_UnchangedDocumentMigratesTheSame ==
    [][(Starts /\ runs >= 1) => cache_db' = cache_db]_vars
====
